---- MODULE Spec2Model ----
(***************************************************************************)
(* Shelf Layout Generator (src/app.py): the classifier detect_shelf, the   *)
(* fill resolver get_cell_color_hex, the grid packer process_sheet, the    *)
(* emitter write_output_workbook and the "generate" handler.               *)
(*                                                                         *)
(* A Python str is a sequence of characters; a character is a one-letter   *)
(* string, or a token "U+XXXX" for a code point outside ASCII.  Python's   *)
(* None is the one-element sequence None below, which is no str.           *)
(***************************************************************************)
EXTENDS Integers, Sequences, FiniteSets, TLC

VARIABLES
    fn, arg, ret,          \* a direct call of one helper: its name, argument, result
    uploaded_file,         \* st.file_uploader's value
    pc,                    \* position of the script inside "if generate:"
    wb,                    \* load_workbook's worksheets
    sheets_data,           \* dict sheet name -> (df_out, others_colors), insertion ordered
    preview,               \* the st.dataframe calls: the grids shown
    excel_bytes,           \* write_output_workbook's return value, once assigned
    download,              \* the st.download_button calls: the data offered
    messages,              \* st.error / st.write / st.success calls, in order
    next_ws                \* position of "for ws in wb.worksheets"

vars == <<fn, arg, ret, uploaded_file, pc, wb, sheets_data, preview,
          excel_bytes, download, messages, next_ws>>

None == <<"None">>

----------------------------------------------------------------------------
(* Python str methods *)

LowerLetters == <<"a","b","c","d","e","f","g","h","i","j","k","l","m",
                  "n","o","p","q","r","s","t","u","v","w","x","y","z">>
UpperLetters == <<"A","B","C","D","E","F","G","H","I","J","K","L","M",
                  "N","O","P","Q","R","S","T","U","V","W","X","Y","Z">>

\* str.upper() of one character: a str, since U+00DF upper-cases to "SS";
\* U+0131 (dotless i) upper-cases to "I".
UpperCh(c) ==
    IF \E i \in 1..26 : LowerLetters[i] = c
    THEN <<UpperLetters[CHOOSE i \in 1..26 : LowerLetters[i] = c]>>
    ELSE IF c = "U+00DF" THEN <<"S","S">>
    ELSE IF c = "U+0131" THEN <<"I">>
    ELSE <<c>>

\* str.lower() of one character: U+0130 (capital I with dot) lower-cases to
\* "i" followed by the combining dot U+0307.
LowerCh(c) ==
    IF \E i \in 1..26 : UpperLetters[i] = c
    THEN <<LowerLetters[CHOOSE i \in 1..26 : UpperLetters[i] = c]>>
    ELSE IF c = "U+0130" THEN <<"i","U+0307">>
    ELSE <<c>>

RECURSIVE Upper(_)
Upper(s) == IF s = <<>> THEN <<>> ELSE UpperCh(Head(s)) \o Upper(Tail(s))

RECURSIVE Lower(_)
Lower(s) == IF s = <<>> THEN <<>> ELSE LowerCh(Head(s)) \o Lower(Tail(s))

IsSpace(c) == c \in {" ", "\t", "\n", "U+00A0"}

RECURSIVE LStrip(_)
LStrip(s) == IF s # <<>> /\ IsSpace(Head(s)) THEN LStrip(Tail(s)) ELSE s

RECURSIVE RStrip(_)
RStrip(s) ==
    IF s # <<>> /\ IsSpace(s[Len(s)]) THEN RStrip(SubSeq(s, 1, Len(s) - 1)) ELSE s

Strip(s) == RStrip(LStrip(s))

\* sub in s
Contains(s, sub) ==
    \E i \in 1..(Len(s) - Len(sub) + 1) : SubSeq(s, i, i + Len(sub) - 1) = sub

Digits == <<"0","1","2","3","4","5","6","7","8","9">>

RECURSIVE NatStr(_)
NatStr(n) == IF n < 10 THEN <<Digits[n + 1]>>
             ELSE NatStr(n \div 10) \o <<Digits[(n % 10) + 1]>>

IntStr(n) == IF n < 0 THEN <<"-">> \o NatStr(0 - n) ELSE NatStr(n)

\* A cell value is None, a str or an int: [t |-> "None" | "str" | "int", s, n].
NoValue == [t |-> "None", s |-> <<>>, n |-> 0]
StrValue(s) == [t |-> "str", s |-> s, n |-> 0]
IntValue(n) == [t |-> "int", s |-> <<>>, n |-> n]

\* str(val)
Str(val) == IF val.t = "str" THEN val.s
            ELSE IF val.t = "int" THEN IntStr(val.n)
            ELSE None

----------------------------------------------------------------------------
(* CONFIG *)

Others == <<"O","t","h","e","r","s">>

SHELF_ORDER == [i \in 1..15 |-> <<UpperLetters[i]>>] \o <<Others>>

SHELF_COLORS ==
    [shelf \in {SHELF_ORDER[i] : i \in 1..Len(SHELF_ORDER)} |->
        CASE shelf = <<"A">> -> <<"#","0","0","B","0","5","0">>
          [] shelf = <<"B">> -> <<"#","0","0","7","0","C","0">>
          [] shelf = <<"C">> -> <<"#","F","F","F","F","0","0">>
          [] shelf = <<"D">> -> <<"#","6","1","C","B","F","3">>
          [] shelf = <<"F">> -> <<"#","C","C","0","0","0","0">>
          [] shelf = <<"H">> -> <<"#","F","F","C","0","0","0">>
          [] shelf = <<"I">> -> <<"#","8","0","8","0","8","0">>
          [] OTHER -> None]

----------------------------------------------------------------------------
(* detect_shelf *)

\* Faulty variant: it reads the 8th character instead of the 9th.
detect_shelf_off_by_one(label) ==
    IF label = NoValue THEN Others
    ELSE LET text == Strip(Str(label)) IN
         IF Len(text) < 9 THEN Others
         ELSE LET ch == UpperCh(text[8]) IN
              IF \E i \in 1..(Len(SHELF_ORDER) - 1) : SHELF_ORDER[i] = ch
              THEN ch ELSE Others

detect_shelf(label) ==
    IF label = NoValue THEN Others
    ELSE LET text == Strip(Str(label)) IN
         IF Len(text) < 9 THEN Others
         ELSE LET ch == UpperCh(text[9]) IN
              IF \E i \in 1..(Len(SHELF_ORDER) - 1) : SHELF_ORDER[i] = ch
              THEN ch ELSE Others

----------------------------------------------------------------------------
(* get_cell_color_hex *)

\* A colour object: [type, rgb]; NoColorObj is a missing (falsy) one.
NoColorObj == [type |-> "absent", rgb |-> None]
\* A fill: [kind |-> "absent" | "pattern" | "gradient", patternType, fgColor,
\* start_color]; a gradient fill has no patternType, fgColor or start_color.
NoFill == [kind |-> "absent", patternType |-> "None",
           fgColor |-> NoColorObj, start_color |-> NoColorObj]

BABY_BLUE == <<"#","6","1","C","B","F","3">>

\* Faulty variant: it keeps the alpha prefix of an ARGB value.
get_cell_color_hex_keep_alpha(cell) ==
    LET fill == cell.fill IN
    IF fill.kind = "absent" \/ fill.kind = "gradient"
       \/ fill.patternType \in {"None", "none"}
    THEN None
    ELSE LET color_obj == IF fill.fgColor # NoColorObj THEN fill.fgColor
                          ELSE fill.start_color IN
         IF color_obj = NoColorObj THEN None
         ELSE LET ctype == color_obj.type
                  rgb   == color_obj.rgb IN
              IF ctype = "rgb" /\ rgb # None /\ rgb # <<>> /\ Len(rgb) \in {6, 8}
              THEN <<"#">> \o Upper(rgb)
              ELSE IF ctype \in {"theme", "indexed"} THEN BABY_BLUE
              ELSE None

get_cell_color_hex(cell) ==
    LET fill == cell.fill IN
    IF fill.kind = "absent" \/ fill.kind = "gradient"
       \/ fill.patternType \in {"None", "none"}
    THEN None
    ELSE LET color_obj == IF fill.fgColor # NoColorObj THEN fill.fgColor
                          ELSE fill.start_color IN
         IF color_obj = NoColorObj THEN None
         ELSE LET ctype == color_obj.type
                  rgb   == color_obj.rgb
                  rgb6  == IF rgb # None /\ Len(rgb) = 8
                           THEN SubSeq(rgb, 3, 8) ELSE rgb IN
              IF ctype = "rgb" /\ rgb # None /\ rgb # <<>> /\ Len(rgb6) = 6
              THEN <<"#">> \o Upper(rgb6)
              ELSE IF ctype \in {"theme", "indexed"} THEN BABY_BLUE
              ELSE None

----------------------------------------------------------------------------
(* process_sheet *)

\* A cell: [value, fill].  A worksheet: [title, rows]; rows is what
\* ws.iter_rows() yields, a sequence of rows of equal width.

ShelfSet == {SHELF_ORDER[i] : i \in 1..Len(SHELF_ORDER)}

Repeat(x, n) == [i \in 1..n |-> x]

\* Faulty variant: it matches 'bin' case-sensitively.
IsExcluded_case_sensitive(text) == Contains(text, <<"b","i","n">>)

\* "bin" in text.lower()
IsExcluded(text) == Contains(Lower(text), <<"b","i","n">>)

\* Faulty variant: it inserts the label at the head of its group.
AppendLabel_prepend(acc, shelf, text, cell) ==
    IF shelf = Others
    THEN [groups |-> [acc.groups EXCEPT ![Others] = <<text>> \o @],
          others_colors |-> <<get_cell_color_hex(cell)>> \o acc.others_colors]
    ELSE [groups |-> [acc.groups EXCEPT ![shelf] = <<text>> \o @],
          others_colors |-> acc.others_colors]

\* groups[shelf].append(text), and for Others the cell's colour too
AppendLabel(acc, shelf, text, cell) ==
    IF shelf = Others
    THEN [groups |-> [acc.groups EXCEPT ![Others] = Append(@, text)],
          others_colors |-> Append(acc.others_colors, get_cell_color_hex(cell))]
    ELSE [groups |-> [acc.groups EXCEPT ![shelf] = Append(@, text)],
          others_colors |-> acc.others_colors]

\* The body of the inner loop, for one cell.
ScanCell(acc, cell) ==
    LET val == cell.value IN
    IF val = NoValue THEN acc
    ELSE LET text == Strip(Str(val)) IN
         IF text = <<>> THEN acc
         ELSE IF IsExcluded(text) THEN acc
         ELSE AppendLabel(acc, detect_shelf(StrValue(text)), text, cell)

RECURSIVE ScanRow(_, _)
ScanRow(acc, row) ==
    IF row = <<>> THEN acc ELSE ScanRow(ScanCell(acc, Head(row)), Tail(row))

RECURSIVE ScanRows(_, _)
ScanRows(acc, rows) ==
    IF rows = <<>> THEN acc ELSE ScanRows(ScanRow(acc, Head(rows)), Tail(rows))

RECURSIVE MaxOf(_)
MaxOf(S) == IF S = {} THEN 0
            ELSE LET x == CHOOSE y \in S : TRUE
                     m == MaxOf(S \ {x}) IN
                 IF x > m THEN x ELSE m

\* max((len(v) for v in groups.values()), default=0)
MaxLen(groups) == MaxOf({Len(groups[shelf]) : shelf \in DOMAIN groups})

\* padded_others_colors + [None] * pad, for the Others column only
PadOthersColors(colors, shelf, pad) ==
    IF shelf = Others THEN colors \o Repeat(None, pad) ELSE colors

\* Faulty variant: it pads every column one cell short.
PadColumn_short(col_vals, pad) ==
    IF pad > 0 THEN col_vals \o Repeat(<<>>, pad - 1) ELSE col_vals

\* col_vals + [""] * pad
PadColumn(col_vals, pad) ==
    IF pad > 0 THEN col_vals \o Repeat(<<>>, pad) ELSE col_vals

\* The padding loop from its i-th shelf on; data is the dict built so far, as
\* its keys in insertion order (columns) and its values (col).
RECURSIVE PadLoop(_, _, _, _, _)
PadLoop(i, groups, max_len, data, colors) ==
    IF i > Len(SHELF_ORDER) THEN [data |-> data, colors |-> colors]
    ELSE LET shelf    == SHELF_ORDER[i]
             col_vals == groups[shelf]
             pad      == max_len - Len(col_vals) IN
         PadLoop(i + 1, groups, max_len,
                 [columns |-> IF \E k \in 1..Len(data.columns) : data.columns[k] = shelf
                              THEN data.columns ELSE Append(data.columns, shelf),
                  col     |-> (shelf :> PadColumn(col_vals, pad)) @@ data.col],
                 IF pad > 0 THEN PadOthersColors(colors, shelf, pad) ELSE colors)

\* pd.DataFrame(data): the columns in the dict's order; its number of rows is
\* the common length of the columns.
DataFrame(data) ==
    [columns |-> data.columns,
     col     |-> data.col,
     nrows   |-> MaxOf({Len(data.col[c]) : c \in DOMAIN data.col})]

process_sheet(ws) ==
    LET scanned == ScanRows([groups |-> [shelf \in ShelfSet |-> <<>>],
                             others_colors |-> <<>>], ws.rows)
        max_len == MaxLen(scanned.groups)
        padded  == PadLoop(1, scanned.groups, max_len,
                           [columns |-> <<>>, col |-> <<>>],
                           scanned.others_colors)
    IN [df_out |-> DataFrame(padded.data), others_colors |-> padded.colors]

----------------------------------------------------------------------------
(* write_output_workbook *)

\* Python truthiness of an optional str
Truthy(s) == s # None /\ s # <<>>

\* sheets_data[key] = value on an insertion-ordered dict, kept as a sequence
\* of entries [name, df_out, others_colors].
DictSet(d, key, df_out, others_colors) ==
    LET entry == [name |-> key, df_out |-> df_out, others_colors |-> others_colors] IN
    IF \E k \in 1..Len(d) : d[k].name = key
    THEN [k \in 1..Len(d) |-> IF d[k].name = key THEN entry ELSE d[k]]
    ELSE Append(d, entry)

\* xlsxwriter refuses a worksheet name longer than 31 characters, which
\* load_workbook accepts: to_excel then raises InvalidWorksheetName.
InvalidWorksheetName(name) == Len(name) > 31

\* df_out.iloc[i, j], i and j 0-based
ILoc(df, i, j) == df.col[df.columns[j + 1]][i + 1]

StartRow == 2

\* df_out.to_excel(header=False, index=False, startrow=2): the cells it writes,
\* keyed by 0-based <<row, column>>
ToExcelCells(df) ==
    [rc \in {<<StartRow + i, j - 1>> : i \in 0..(df.nrows - 1), j \in 1..Len(df.columns)} |->
        [value |-> ILoc(df, rc[1] - StartRow, rc[2]), bg |-> None]]

\* Faulty variant: it fills row 1 only and leaves the shelf letter of row 2 white.
HeaderCells_row2_unfilled ==
    [rc \in {<<r, col_idx>> : r \in 0..1, col_idx \in 0..(Len(SHELF_ORDER) - 1)} |->
        LET shelf        == SHELF_ORDER[rc[2] + 1]
            header_color == SHELF_COLORS[shelf] IN
        IF rc[1] = 0
        THEN IF Truthy(header_color)
             THEN [value |-> header_color, bg |-> header_color]
             ELSE [value |-> <<>>, bg |-> None]
        ELSE [value |-> shelf, bg |-> None]]

\* The header loop: rows 0 and 1 of every shelf's column
HeaderCells ==
    [rc \in {<<r, col_idx>> : r \in 0..1, col_idx \in 0..(Len(SHELF_ORDER) - 1)} |->
        LET shelf        == SHELF_ORDER[rc[2] + 1]
            header_color == SHELF_COLORS[shelf]
            bg           == IF Truthy(header_color) THEN header_color ELSE None IN
        IF rc[1] = 0
        THEN [value |-> IF Truthy(header_color) THEN header_color ELSE <<>>, bg |-> bg]
        ELSE [value |-> shelf, bg |-> bg]]

\* SHELF_ORDER.index("Others")
others_col_idx == (CHOOSE k \in 1..Len(SHELF_ORDER) : SHELF_ORDER[k] = Others) - 1

\* Faulty variant: it writes each coloured label one row too low.
OthersCells_row_shifted(df, others_colors) ==
    [rc \in {<<3 + i, others_col_idx>> :
                i \in {k \in 0..(Len(others_colors) - 1) : Truthy(others_colors[k + 1])}} |->
        [value |-> ILoc(df, rc[1] - 3, others_col_idx),
         bg    |-> others_colors[rc[1] - 3 + 1]]]

\* The loop over enumerate(others_colors): the cells it rewrites
OthersCells(df, others_colors) ==
    [rc \in {<<2 + i, others_col_idx>> :
                i \in {k \in 0..(Len(others_colors) - 1) : Truthy(others_colors[k + 1])}} |->
        [value |-> ILoc(df, rc[1] - 2, others_col_idx),
         bg    |-> others_colors[rc[1] - 2 + 1]]]

\* df_out.iloc[i, others_col_idx] raises IndexError when i is no row of df_out
OthersIndexError(df, others_colors) ==
    \E i \in 0..(Len(others_colors) - 1) : Truthy(others_colors[i + 1]) /\ i >= df.nrows

ColumnWidth == 22

\* One pass of the loop over sheets_data.items(): the sheet it leaves in the
\* writer; a later write to a cell replaces an earlier one.
WriteSheet(entry) ==
    [name   |-> entry.name,
     cells  |-> OthersCells(entry.df_out, entry.others_colors)
                @@ HeaderCells @@ ToExcelCells(entry.df_out),
     widths |-> [first |-> 0, last |-> Len(SHELF_ORDER) - 1, width |-> ColumnWidth]]

\* The loop over sheets_data.items() from its k-th entry on: the exception
\* that ends it, if any, else the sheets written, in order.
RECURSIVE WriteLoop(_, _, _)
WriteLoop(k, data, written) ==
    IF k > Len(data) THEN [raised |-> "", sheets |-> written]
    ELSE IF InvalidWorksheetName(data[k].name)
    THEN [raised |-> "InvalidWorksheetName", sheets |-> <<>>]
    ELSE IF OthersIndexError(data[k].df_out, data[k].others_colors)
    THEN [raised |-> "IndexError", sheets |-> <<>>]
    ELSE WriteLoop(k + 1, data, Append(written, WriteSheet(data[k])))

\* The result: the exception raised, if any (no bytes are returned then),
\* else the workbook's sheets.
write_output_workbook(data) == WriteLoop(1, data, <<>>)

----------------------------------------------------------------------------
(* Inputs *)

MaxCells   == 3   \* cells of the worksheet given to a direct process_sheet call
MaxSheets  == 2   \* worksheets of an uploaded workbook
MaxWbCells == 2   \* cells of an uploaded workbook, all worksheets together

HAZ_A101 == <<"H","A","Z","-","A","1","0","1">>

SolidRgb(rgb) ==
    LET c == [type |-> "rgb", rgb |-> rgb] IN
    [kind |-> "pattern", patternType |-> "solid", fgColor |-> c, start_color |-> c]
SolidTheme ==
    LET c == [type |-> "theme", rgb |-> None] IN
    [kind |-> "pattern", patternType |-> "solid", fgColor |-> c, start_color |-> c]

Cell(value, fill) == [value |-> value, fill |-> fill]

\* Arguments of a direct detect_shelf call
LabelPrefixes == {HAZ_A101, <<".",".",".",".",".",".",".",".">>,
                  <<"H","A","Z","-","B","1","b","I">>}
NinthChars == {UpperLetters[i] : i \in 1..26} \cup
              {"a", "i", "o", "p", "z", "1", "-", ".", " ", "U+0131", "U+00DF"}
LabelSuffixes == {<<>>, <<"1","1","0">>, <<"1","2","3">>, <<"N","4","5">>, <<" ">>}
LabelArgs ==
    {StrValue(lead \o pre \o <<ch>> \o suf) :
        lead \in {<<>>, <<" ">>}, pre \in LabelPrefixes,
        ch \in NinthChars, suf \in LabelSuffixes}
    \cup {StrValue(<<>>), StrValue(<<"X">>), StrValue(HAZ_A101),
          StrValue(<<" "," "," ">>), NoValue,
          IntValue(7), IntValue(123456789), IntValue(-12345678)}

\* Arguments of a direct get_cell_color_hex call
RgbValues == {None, <<>>, <<"F","F","6","1","c","b","f","3">>,
              <<"0","0","B","0","5","0">>, <<"f","f","C","0","0","0">>,
              <<"F","F","F">>, <<"F","F","C","0","0","0","0">>,
              <<"F","F","F","F","C","0","0","0","0">>}
ColorObjs == {[type |-> t, rgb |-> rgb] :
                 t \in {"rgb", "theme", "indexed", "None"}, rgb \in RgbValues}
FillArgs ==
    {NoFill, [NoFill EXCEPT !.kind = "gradient"]}
    \cup {[kind |-> "pattern", patternType |-> pt, fgColor |-> c, start_color |-> c] :
             pt \in {"None", "none", "solid", "gray125"},
             c \in ColorObjs \cup {NoColorObj}}
    \cup {[kind |-> "pattern", patternType |-> "solid",
           fgColor |-> NoColorObj, start_color |-> c] : c \in ColorObjs}
CellArgs == {Cell(StrValue(<<"X">>), f) : f \in FillArgs}

\* Rectangular grids of at most n cells over a set of cells, as iter_rows
\* yields them; an empty worksheet yields no row.
Grids(n, cells) ==
    {<<>>} \cup UNION {UNION {[1..r -> [1..c -> cells]] :
                                 c \in {k \in 1..n : r * k <= n}} : r \in 1..n}

GridSize(rows) == IF rows = <<>> THEN 0 ELSE Len(rows) * Len(rows[1])

\* Cells of the worksheet of a direct process_sheet call
SheetCells ==
    {Cell(StrValue(HAZ_A101 \o <<"A","1","1","0">>), NoFill),
     Cell(StrValue(<<" ">> \o Lower(HAZ_A101) \o <<"b","1"," ">>),
          SolidRgb(<<"F","F","0","0","7","0","C","0">>)),
     Cell(StrValue(<<"X">>), SolidRgb(<<"F","F","f","f","c","0","0","0">>)),
     Cell(StrValue(HAZ_A101 \o <<"z","b","U+0130","n">>), SolidTheme),
     Cell(IntValue(7), NoFill),
     Cell(StrValue(HAZ_A101 \o <<"B","I","N","4","5">>), NoFill),
     Cell(StrValue(<<" ","\t">>), SolidTheme),
     Cell(NoValue, SolidTheme)}
SheetArgs == {[title |-> <<"S","h","e","e","t","1">>, rows |-> rows] :
                 rows \in Grids(MaxCells, SheetCells)}

\* Cells and worksheet names of an uploaded workbook
WbCells ==
    {Cell(StrValue(HAZ_A101 \o <<"A","1","1","0">>), NoFill),
     Cell(StrValue(HAZ_A101 \o <<"I","1","2","3">>),
          SolidRgb(<<"F","F","8","0","8","0","8","0">>)),
     Cell(StrValue(<<"X">>), SolidRgb(<<"F","F","f","f","c","0","0","0">>)),
     Cell(IntValue(7), NoFill),
     Cell(StrValue(HAZ_A101 \o <<"B","I","N","4","5">>), SolidTheme)}
LongTitle == Repeat("x", 32)
Titles == {<<"S","h","e","e","t","1">>, <<"D","a","t","a">>, LongTitle}

\* The workbooks load_workbook can return: at most n worksheets of at most
\* budget cells together, with distinct titles (openpyxl renames a duplicate).
RECURSIVE WorkbooksOf(_, _, _)
WorkbooksOf(n, budget, titles) ==
    {<<>>} \cup
    (IF n = 0 THEN {}
     ELSE UNION {{<<ws>> \o rest :
                     rest \in WorkbooksOf(n - 1, budget - GridSize(ws.rows),
                                          titles \ {ws.title})} :
                 ws \in [title : titles, rows : Grids(budget, WbCells)]})

Workbooks == WorkbooksOf(MaxSheets, MaxWbCells, Titles)

\* uploaded_file is None: [present |-> FALSE]; else the file, which
\* load_workbook can read or not.
NoUpload == [present |-> FALSE, corrupt |-> FALSE, worksheets |-> <<>>]
Unassigned == [assigned |-> FALSE, sheets |-> <<>>]

UploadedFiles ==
    {NoUpload, [present |-> TRUE, corrupt |-> TRUE, worksheets |-> <<>>]}
    \cup {[present |-> TRUE, corrupt |-> FALSE, worksheets |-> sheets] :
             sheets \in Workbooks}

----------------------------------------------------------------------------
(* Direct calls of the helpers *)

NotReturned == [done |-> FALSE, value |-> None]
Returned(v) == [done |-> TRUE, value |-> v]

HandlerIdle ==
    /\ uploaded_file = NoUpload
    /\ pc = "idle"
    /\ wb = <<>>
    /\ sheets_data = <<>>
    /\ preview = <<>>
    /\ excel_bytes = Unassigned
    /\ download = <<>>
    /\ messages = <<>>
    /\ next_ws = 0

handler_vars == <<uploaded_file, pc, wb, sheets_data, preview, excel_bytes,
                  download, messages, next_ws>>

InitFn ==
    /\ \/ fn = "detect_shelf" /\ arg \in LabelArgs
       \/ fn = "get_cell_color_hex" /\ arg \in CellArgs
       \/ fn = "process_sheet" /\ arg \in SheetArgs
       \/ fn = "write_output_workbook" /\ arg \in SheetArgs
    /\ ret = NotReturned
    /\ HandlerIdle

CallDetectShelf ==
    /\ fn = "detect_shelf" /\ ~ret.done
    /\ ret' = Returned(detect_shelf(arg))
    /\ UNCHANGED <<fn, arg, handler_vars>>

CallGetCellColorHex ==
    /\ fn = "get_cell_color_hex" /\ ~ret.done
    /\ ret' = Returned(get_cell_color_hex(arg))
    /\ UNCHANGED <<fn, arg, handler_vars>>

CallProcessSheet ==
    /\ fn = "process_sheet" /\ ~ret.done
    /\ ret' = Returned(process_sheet(arg))
    /\ UNCHANGED <<fn, arg, handler_vars>>

\* write_output_workbook on the sheets_data the script builds from the one
\* worksheet arg: {arg.title: process_sheet(arg)}
CallWriteOutputWorkbook ==
    /\ fn = "write_output_workbook" /\ ~ret.done
    /\ LET r == process_sheet(arg) IN
       ret' = Returned(write_output_workbook(
                           DictSet(<<>>, arg.title, r.df_out, r.others_colors)))
    /\ UNCHANGED <<fn, arg, handler_vars>>

NextFn ==
    \/ CallDetectShelf
    \/ CallGetCellColorHex
    \/ CallProcessSheet
    \/ CallWriteOutputWorkbook

SpecFn == InitFn /\ [][NextFn]_vars

----------------------------------------------------------------------------
(* The script below "if generate:", one run of it *)

PreviewRows == 20

\* df.head(n)
HeadRows(df, n) ==
    LET m == IF df.nrows < n THEN df.nrows ELSE n IN
    [columns |-> df.columns,
     col     |-> [c \in DOMAIN df.col |-> SubSeq(df.col[c], 1, m)],
     nrows   |-> m]

Message(kind, text) == [kind |-> kind, text |-> text]

Init ==
    /\ fn = "none" /\ arg = None /\ ret = NotReturned
    /\ uploaded_file \in UploadedFiles
    /\ pc = "generate"
    /\ wb = <<>>
    /\ sheets_data = <<>>
    /\ preview = <<>>
    /\ excel_bytes = Unassigned
    /\ download = <<>>
    /\ messages = <<>>
    /\ next_ws = 0

\* if uploaded_file is None: st.error(...)
NoFile ==
    /\ pc = "generate" /\ ~uploaded_file.present
    /\ messages' = Append(messages,
                          Message("error", "Please upload an Excel (.xlsx) file first."))
    /\ pc' = "end"
    /\ UNCHANGED <<fn, arg, ret, uploaded_file, wb, sheets_data, preview,
                   excel_bytes, download, next_ws>>

\* load_workbook raises: st.error(...)
LoadWorkbookFails ==
    /\ pc = "generate" /\ uploaded_file.present /\ uploaded_file.corrupt
    /\ messages' = Append(messages, Message("error", "Failed to read Excel file"))
    /\ pc' = "end"
    /\ UNCHANGED <<fn, arg, ret, uploaded_file, wb, sheets_data, preview,
                   excel_bytes, download, next_ws>>

\* wb = load_workbook(...); sheets_data = {}
LoadWorkbook ==
    /\ pc = "generate" /\ uploaded_file.present /\ ~uploaded_file.corrupt
    /\ wb' = uploaded_file.worksheets
    /\ sheets_data' = <<>>
    /\ next_ws' = 1
    /\ pc' = "for_ws"
    /\ UNCHANGED <<fn, arg, ret, uploaded_file, preview, excel_bytes, download,
                   messages>>

\* Faulty variant: it files every worksheet's table under the first worksheet's title.
ProcessWorksheet_first_title ==
    /\ pc = "for_ws" /\ next_ws <= Len(wb)
    /\ LET ws == wb[next_ws]
           r  == process_sheet(ws) IN
       sheets_data' = DictSet(sheets_data, wb[1].title, r.df_out, r.others_colors)
    /\ next_ws' = next_ws + 1
    /\ UNCHANGED <<fn, arg, ret, uploaded_file, pc, wb, preview, excel_bytes,
                   download, messages>>

\* One pass of "for ws in wb.worksheets"
ProcessWorksheet ==
    /\ pc = "for_ws" /\ next_ws <= Len(wb)
    /\ LET ws == wb[next_ws]
           r  == process_sheet(ws) IN
       sheets_data' = DictSet(sheets_data, ws.title, r.df_out, r.others_colors)
    /\ next_ws' = next_ws + 1
    /\ UNCHANGED <<fn, arg, ret, uploaded_file, pc, wb, preview, excel_bytes,
                   download, messages>>

\* if not sheets_data: st.error(...)
NoData ==
    /\ pc = "for_ws" /\ next_ws > Len(wb)
    /\ sheets_data = <<>>
    /\ messages' = Append(messages,
                          Message("error", "No data found in the uploaded workbook."))
    /\ pc' = "end"
    /\ UNCHANGED <<fn, arg, ret, uploaded_file, wb, sheets_data, preview,
                   excel_bytes, download, next_ws>>

\* Preview first sheet: st.write(...), st.dataframe(preview_df.head(20))
Preview ==
    /\ pc = "for_ws" /\ next_ws > Len(wb)
    /\ sheets_data # <<>>
    /\ messages' = Append(messages, Message("write", "Preview from sheet"))
    /\ preview' = Append(preview, [sheet |-> sheets_data[1].name,
                                   grid  |-> HeadRows(sheets_data[1].df_out, PreviewRows)])
    /\ pc' = "write"
    /\ UNCHANGED <<fn, arg, ret, uploaded_file, wb, sheets_data, excel_bytes,
                   download, next_ws>>

\* excel_bytes = write_output_workbook(sheets_data); st.success(...).  An
\* exception of write_output_workbook is caught nowhere: it ends the run, and
\* Streamlit shows it.
WriteOutputWorkbook ==
    /\ pc = "write"
    /\ LET r == write_output_workbook(sheets_data) IN
       IF r.raised # ""
       THEN /\ messages' = Append(messages, Message("exception", r.raised))
            /\ pc' = "raised"
            /\ UNCHANGED excel_bytes
       ELSE /\ excel_bytes' = [assigned |-> TRUE, sheets |-> r.sheets]
            /\ messages' = Append(messages,
                                  Message("success", "Shelf layout Excel generated successfully."))
            /\ pc' = "download_button"
    /\ UNCHANGED <<fn, arg, ret, uploaded_file, wb, sheets_data, preview,
                   download, next_ws>>

\* st.download_button(data=excel_bytes, ...)
DownloadButton ==
    /\ pc = "download_button"
    /\ download' = Append(download, [data      |-> excel_bytes.sheets,
                                     file_name |-> "shelf_labels_layout_colours.xlsx"])
    /\ pc' = "end"
    /\ UNCHANGED <<fn, arg, ret, uploaded_file, wb, sheets_data, preview,
                   excel_bytes, messages, next_ws>>

Next ==
    \/ NoFile
    \/ LoadWorkbookFails
    \/ LoadWorkbook
    \/ ProcessWorksheet
    \/ NoData
    \/ Preview
    \/ WriteOutputWorkbook
    \/ DownloadButton

Spec == Init /\ [][Next]_vars

----------------------------------------------------------------------------
(* Properties of detect_shelf and get_cell_color_hex *)

LetterBuckets == {<<"A">>, <<"B">>, <<"C">>, <<"D">>, <<"E">>, <<"F">>, <<"G">>, <<"H">>,
                  <<"I">>, <<"J">>, <<"K">>, <<"L">>, <<"M">>, <<"N">>, <<"O">>}

\* The trimmed text of a label, the empty text for None
TrimmedLabel(label) == IF label = NoValue THEN <<>> ELSE Strip(Str(label))

\* C1: detect_shelf returns one of the 16 buckets for every label: Others when
\* the label is None or its trimmed text has fewer than 9 characters, and
\* otherwise the upper-cased 9th character of the trimmed text when that is
\* one of A..O and Others when it is not; two labels of at least 9 characters
\* with the same upper-cased 9th character get the same bucket.
C1_DetectShelf ==
    (fn = "detect_shelf" /\ ret.done) =>
        LET text == TrimmedLabel(arg) IN
        /\ ret.value \in LetterBuckets \cup {Others}
        /\ Len(text) < 9 => ret.value = Others
        /\ Len(text) >= 9 =>
              /\ ret.value = IF UpperCh(text[9]) \in LetterBuckets
                             THEN UpperCh(text[9]) ELSE Others
              /\ \A other \in LabelArgs :
                    LET t2 == TrimmedLabel(other) IN
                    (Len(t2) >= 9 /\ UpperCh(t2[9]) = UpperCh(text[9]))
                        => detect_shelf(other) = ret.value
        /\ arg = StrValue(HAZ_A101 \o <<"A","1","1","0">>) => ret.value = <<"A">>
        /\ arg = StrValue(HAZ_A101 \o <<"I","1","2","3">>) => ret.value = <<"I">>
        /\ arg = StrValue(<<"X">>) => ret.value = Others
        /\ (Len(text) >= 9 /\ text[9] \in {"z", "Z"}) => ret.value = Others

\* A label whose 9th character is a lower-case letter of A..O, behind a
\* leading blank and other letters of A..O, has been classified.
C1_Witness ==
    /\ fn = "detect_shelf" /\ ret.done
    /\ arg = StrValue(<<" ","H","A","Z","-","B","1","b","I","i","1","2","3">>)
    /\ ret.value = <<"I">>

IsLowerLetter(c) == \E i \in 1..26 : LowerLetters[i] = c

\* C10: get_cell_color_hex returns None for a cell with no pattern fill or
\* with pattern type None/'none'; for a visible fill whose colour has type
\* rgb and 8 or 6 characters, '#' and the upper-cased last 6 characters; for
\* a theme or indexed colour, #61CBF3; None in every other case; so a result
\* other than None is '#' followed by exactly 6 characters.
C10_CellColorHex ==
    (fn = "get_cell_color_hex" /\ ret.done) =>
        LET fill    == arg.fill
            visible == fill.kind = "pattern" /\ fill.patternType \notin {"None", "none"}
            color   == IF fill.fgColor # NoColorObj THEN fill.fgColor ELSE fill.start_color
            isStr   == color.rgb # None
            n       == IF isStr THEN Len(color.rgb) ELSE 0
        IN
        /\ ~visible => ret.value = None
        /\ (visible /\ color = NoColorObj) => ret.value = None
        /\ (visible /\ color.type = "rgb" /\ n = 8) =>
              ret.value = <<"#">> \o Upper(SubSeq(color.rgb, 3, 8))
        /\ (visible /\ color.type = "rgb" /\ n = 6) =>
              ret.value = <<"#">> \o Upper(color.rgb)
        /\ (visible /\ color.type \in {"theme", "indexed"}) =>
              ret.value = <<"#","6","1","C","B","F","3">>
        /\ (visible /\ color.type = "rgb" /\ n \notin {6, 8}) => ret.value = None
        /\ (visible /\ color.type \notin {"rgb", "theme", "indexed"}) => ret.value = None
        /\ ret.value # None =>
              /\ Len(ret.value) = 7
              /\ ret.value[1] = "#"
              /\ \A k \in 2..7 : ~IsLowerLetter(ret.value[k])

\* An ARGB fill written in lower case has been resolved.
C10_Witness ==
    /\ fn = "get_cell_color_hex" /\ ret.done
    /\ arg.fill.patternType = "solid"
    /\ arg.fill.fgColor = [type |-> "rgb", rgb |-> <<"F","F","6","1","c","b","f","3">>]
    /\ ret.value = <<"#","6","1","C","B","F","3">>

----------------------------------------------------------------------------
(* Properties of process_sheet *)

\* The cells of a worksheet in row-major order
RECURSIVE RowMajor(_)
RowMajor(rows) == IF rows = <<>> THEN <<>> ELSE Head(rows) \o RowMajor(Tail(rows))

CellText(cell) == TrimmedLabel(cell.value)

\* 'bin' in any letter case
HasBinAnyCase(text) ==
    \E i \in 1..(Len(text) - 2) :
        text[i] \in {"b", "B"} /\ text[i + 1] \in {"i", "I"} /\ text[i + 2] \in {"n", "N"}

\* A cell that contributes a label: a value, not blank, without 'bin'
Contributes(cell) ==
    /\ cell.value # NoValue
    /\ CellText(cell) # <<>>
    /\ ~Contains(Lower(CellText(cell)), <<"b","i","n">>)

\* The contributing cells of a worksheet, in extraction order, and those of
\* them that classify to bucket b
ExtractedCells(ws) == SelectSeq(RowMajor(ws.rows), Contributes)
BucketCells(ws, b) ==
    SelectSeq(ExtractedCells(ws), LAMBDA c : detect_shelf(StrValue(CellText(c))) = b)
BucketLabels(ws, b) ==
    LET cells == BucketCells(ws, b) IN [i \in 1..Len(cells) |-> CellText(cells[i])]

LargestBucket(ws) == MaxOf({Len(BucketCells(ws, b)) : b \in LetterBuckets \cup {Others}})

NonEmptyCells(col) == SelectSeq(col, LAMBDA v : v # <<>>)
EmptyCells(col) == SelectSeq(col, LAMBDA v : v = <<>>)

FixedColumns ==
    << <<"A">>, <<"B">>, <<"C">>, <<"D">>, <<"E">>, <<"F">>, <<"G">>, <<"H">>, <<"I">>,
       <<"J">>, <<"K">>, <<"L">>, <<"M">>, <<"N">>, <<"O">>, <<"O","t","h","e","r","s">> >>

\* C2: the table process_sheet returns has the 16 columns A..O, Others in
\* that order; every column has max_len rows, max_len being the size of the
\* largest bucket (0 when no label is extracted); each column holds max_len
\* minus its bucket's size empty cells; the Others colour list has max_len
\* entries.
C2_EqualColumns ==
    (fn = "process_sheet" /\ ret.done) =>
        LET df      == ret.value.df_out
            max_len == LargestBucket(arg) IN
        /\ df.columns = FixedColumns
        /\ DOMAIN df.col = LetterBuckets \cup {Others}
        /\ df.nrows = max_len
        /\ \A b \in DOMAIN df.col :
              /\ Len(df.col[b]) = max_len
              /\ Len(EmptyCells(df.col[b])) = max_len - Len(BucketCells(arg, b))
        /\ Len(ret.value.others_colors) = max_len
        /\ ExtractedCells(arg) = <<>> => max_len = 0

\* A table of two rows with a padded column and an unpadded one.
C2_Witness ==
    /\ fn = "process_sheet" /\ ret.done
    /\ ret.value.df_out.nrows = 2
    /\ Len(BucketCells(arg, <<"A">>)) = 2
    /\ Len(BucketCells(arg, Others)) = 1
    /\ Len(EmptyCells(ret.value.df_out.col[Others])) = 1
    /\ Len(EmptyCells(ret.value.df_out.col[<<"B">>])) = 2

\* C3: each column of the table is the labels that classify to its bucket,
\* in row-major extraction order and with repetitions, followed by empty
\* cells only; so the non-empty cells of a column, read downwards, are those
\* labels, and no label is dropped, duplicated, merged or moved.
C3_OrderPreserved ==
    (fn = "process_sheet" /\ ret.done) =>
        LET df == ret.value.df_out IN
        \A b \in LetterBuckets \cup {Others} :
            LET labels == BucketLabels(arg, b) IN
            /\ b \in DOMAIN df.col
            /\ NonEmptyCells(df.col[b]) = labels
            /\ Len(df.col[b]) >= Len(labels)
            /\ SubSeq(df.col[b], 1, Len(labels)) = labels

\* Two labels of Others in extraction order, in a worksheet of three rows
\* with a label of bucket A between them.
C3_Witness ==
    /\ fn = "process_sheet" /\ ret.done
    /\ Len(arg.rows) = 3
    /\ ret.value.df_out.col[Others] = << <<"7">>, <<"X">> >>
    /\ ret.value.df_out.col[<<"A">>] = <<HAZ_A101 \o <<"A","1","1","0">>, <<>> >>
    /\ CellText(arg.rows[2][1]) = HAZ_A101 \o <<"A","1","1","0">>

\* C4: a cell contributes a label exactly when its value is not None, it is
\* not blank after trimming and its lower-cased text does not contain 'bin':
\* the table holds one cell per contributing cell and label, and no label
\* with 'bin' in any letter case; a worksheet holding only 'HAZ-A101BIN45'
\* gives a table of zero rows.
C4_Exclusion ==
    (fn = "process_sheet" /\ ret.done) =>
        LET df    == ret.value.df_out
            cells == RowMajor(arg.rows)
            Count(text, seq) == Cardinality({i \in 1..Len(seq) : seq[i] = text}) IN
        /\ \A b \in DOMAIN df.col : \A k \in 1..Len(df.col[b]) :
              LET text == df.col[b][k] IN
              text # <<>> =>
                  /\ ~HasBinAnyCase(text)
                  /\ \E i \in 1..Len(cells) : Contributes(cells[i]) /\ CellText(cells[i]) = text
        /\ \A i \in 1..Len(cells) :
              LET text == CellText(cells[i])
                  b    == detect_shelf(StrValue(text)) IN
              IF Contributes(cells[i])
              THEN /\ b \in DOMAIN df.col
                   /\ Count(text, df.col[b])
                        = Cardinality({j \in 1..Len(cells) :
                                          Contributes(cells[j]) /\ CellText(cells[j]) = text})
              ELSE cells[i].value # NoValue =>
                       \/ text = <<>>
                       \/ /\ HasBinAnyCase(text)
                          /\ \A c \in DOMAIN df.col : Count(text, df.col[c]) = 0
        /\ (Len(cells) = 1 /\ cells[1].value = StrValue(HAZ_A101 \o <<"B","I","N","4","5">>))
              => df.nrows = 0

\* An upper-case BIN label of bucket B was dropped beside a kept label.
C4_Witness ==
    /\ fn = "process_sheet" /\ ret.done
    /\ Len(arg.rows) = 1 /\ Len(arg.rows[1]) = 2
    /\ arg.rows[1][1].value = StrValue(HAZ_A101 \o <<"B","I","N","4","5">>)
    /\ arg.rows[1][2].value = StrValue(<<"X">>)
    /\ ret.value.df_out.nrows = 1
    /\ ret.value.df_out.col[<<"B">>] = << <<>> >>

----------------------------------------------------------------------------
(* Properties of write_output_workbook *)

CellAt(sheet, r, c) ==
    IF <<r, c>> \in DOMAIN sheet.cells THEN sheet.cells[<<r, c>>]
    ELSE [value |-> None, bg |-> None]

\* C8: in an output sheet, for the k-th bucket of A..O, Others: row 1 holds
\* the bucket's configured colour as text and as fill, or an empty cell
\* without fill when none is configured; row 2 holds the bucket's name with
\* row 1's fill; row j of the packed table (from 0) is at sheet row j + 3
\* (from 1), and nothing is written below the table or beside it.
C8_HeaderLayout ==
    (fn = "write_output_workbook" /\ ret.done) =>
        /\ ret.value.raised = ""
        /\ Len(ret.value.sheets) = 1
        /\ LET sheet == ret.value.sheets[1]
               n     == LargestBucket(arg) IN
           /\ sheet.name = arg.title
           /\ \A k \in 1..16 :
                 LET shelf == FixedColumns[k]
                     color == SHELF_COLORS[shelf]
                     row1  == CellAt(sheet, 0, k - 1)
                     row2  == CellAt(sheet, 1, k - 1)
                     labels == BucketLabels(arg, shelf)
                     label(j) == IF j < Len(labels) THEN labels[j + 1] ELSE <<>> IN
                 /\ IF color # None
                    THEN row1 = [value |-> color, bg |-> color]
                    ELSE row1 = [value |-> <<>>, bg |-> None]
                 /\ row2 = [value |-> shelf, bg |-> row1.bg]
                 /\ \A j \in 0..(n - 1) : CellAt(sheet, j + 2, k - 1).value = label(j)
           /\ \A rc \in DOMAIN sheet.cells : rc[1] \in 0..(n + 1) /\ rc[2] \in 0..15
           /\ CellAt(sheet, 0, 0).bg = <<"#","0","0","B","0","5","0">>
           /\ CellAt(sheet, 1, 15) = [value |-> <<"O","t","h","e","r","s">>, bg |-> None]

\* A sheet with a table of two rows under the headers has been written.
C8_Witness ==
    /\ fn = "write_output_workbook" /\ ret.done
    /\ ret.value.raised = ""
    /\ CellAt(ret.value.sheets[1], 2, 0).value = HAZ_A101 \o <<"A","1","1","0">>
    /\ CellAt(ret.value.sheets[1], 3, 0).value = HAZ_A101 \o <<"A","1","1","0">>
    /\ CellAt(ret.value.sheets[1], 2, 15).value = HAZ_A101 \o <<"z","b","U+0130","n">>
    /\ CellAt(ret.value.sheets[1], 3, 15).value = <<>>
    /\ CellAt(ret.value.sheets[1], 1, 0) =
          [value |-> <<"A">>, bg |-> <<"#","0","0","B","0","5","0">>]

\* C9: the cell at row i of the Others column holds the i-th label of Others
\* with the fill get_cell_color_hex resolves from that label's own source
\* cell, no fill when it resolves none; a pad cell is empty without fill; the
\* rows rewritten all lie inside the table (no IndexError); no cell of
\* columns A..O below the headers has a fill.
C9_OthersFill ==
    (fn = "write_output_workbook" /\ ret.done) =>
        /\ ret.value.raised = ""
        /\ Len(ret.value.sheets) = 1
        /\ LET sheet == ret.value.sheets[1]
               src   == BucketCells(arg, Others)
               n     == LargestBucket(arg) IN
           /\ \A i \in 0..(n - 1) :
                 CellAt(sheet, 2 + i, 15) =
                    IF i < Len(src)
                    THEN [value |-> CellText(src[i + 1]), bg |-> get_cell_color_hex(src[i + 1])]
                    ELSE [value |-> <<>>, bg |-> None]
           /\ \A rc \in DOMAIN sheet.cells :
                 rc[1] >= 2 => /\ rc[1] <= n + 1
                               /\ rc[2] # 15 => sheet.cells[rc].bg = None

\* An Others label without fill above one with a fill written in lower case,
\* and a label of bucket B whose source cell has a fill.
C9_Witness ==
    /\ fn = "write_output_workbook" /\ ret.done
    /\ ret.value.raised = ""
    /\ CellAt(ret.value.sheets[1], 2, 15) = [value |-> <<"7">>, bg |-> None]
    /\ CellAt(ret.value.sheets[1], 3, 15) =
          [value |-> <<"X">>, bg |-> <<"#","F","F","C","0","0","0">>]
    /\ CellAt(ret.value.sheets[1], 2, 1).value = Lower(HAZ_A101) \o <<"b","1">>
    /\ CellAt(ret.value.sheets[1], 3, 1).value = <<>>

----------------------------------------------------------------------------
(* Properties of a generate run *)

HasMessage(kind) == \E k \in 1..Len(messages) : messages[k].kind = kind

\* C5: the generated workbook has one sheet per input worksheet, under the
\* same name, and the cells below the headers of the sheet named S are the
\* table of the labels of input worksheet S alone: each column holds the
\* labels of S of its bucket, padded to S's own largest bucket, and nothing
\* else; the download offers exactly this workbook.
C5_SheetIsolation ==
    excel_bytes.assigned =>
        LET ws  == uploaded_file.worksheets
            out == excel_bytes.sheets IN
        /\ Len(out) = Len(ws)
        /\ \A i \in 1..Len(out) :
              i <= Len(ws) =>
                 LET n == LargestBucket(ws[i]) IN
                 /\ out[i].name = ws[i].title
                 /\ \A k \in 1..16 :
                       LET labels == BucketLabels(ws[i], FixedColumns[k]) IN
                       \A j \in 0..(n - 1) :
                          CellAt(out[i], j + 2, k - 1).value =
                             IF j < Len(labels) THEN labels[j + 1] ELSE <<>>
                 /\ \A rc \in DOMAIN out[i].cells : rc[1] <= n + 1
        /\ \A d \in 1..Len(download) : download[d].data = out

\* A workbook of two worksheets with different labels has been generated
\* and offered for download.
C5_Witness ==
    /\ pc = "end" /\ Len(download) = 1
    /\ Len(uploaded_file.worksheets) = 2
    /\ Len(excel_bytes.sheets) = 2
    /\ ExtractedCells(uploaded_file.worksheets[1]) # <<>>
    /\ CellAt(excel_bytes.sheets[1], 2, 0).value = HAZ_A101 \o <<"A","1","1","0">>
    /\ CellAt(excel_bytes.sheets[1], 2, 15).value = <<>>
    /\ CellAt(excel_bytes.sheets[2], 2, 15).value = <<"X">>
    /\ CellAt(excel_bytes.sheets[2], 2, 0).value = <<>>

\* No label is extracted from the uploaded workbook.
NoLabelsExtracted ==
    /\ uploaded_file.present /\ ~uploaded_file.corrupt
    /\ \A i \in 1..Len(uploaded_file.worksheets) :
          ExtractedCells(uploaded_file.worksheets[i]) = <<>>

\* C6: when no file is supplied or no label is extracted from the workbook
\* (worksheets without a non-excluded label included), the run shows no
\* preview, offers no download, and ends with the validation error.
C6_EmptyInputRejected ==
    (~uploaded_file.present \/ NoLabelsExtracted) =>
        /\ preview = <<>>
        /\ download = <<>>
        /\ pc \in {"end", "raised"} => HasMessage("error")

\* C7: a run ends with a complete result or with one error and no output:
\* after a failed read nothing is extracted, shown or offered; when
\* write_output_workbook fails the failure is reported and neither a preview
\* nor a download has been handed back; a download is offered only after the
\* read, the extraction of every worksheet and the emission.
C7_NoPartialOutput ==
    /\ (uploaded_file.present /\ uploaded_file.corrupt) =>
          sheets_data = <<>> /\ preview = <<>> /\ download = <<>>
    /\ pc = "raised" =>
          /\ HasMessage("error") \/ HasMessage("exception")
          /\ preview = <<>>
          /\ download = <<>>
    /\ download # <<>> =>
          /\ ~uploaded_file.corrupt
          /\ next_ws > Len(wb)
          /\ Len(sheets_data) = Len(uploaded_file.worksheets)
          /\ excel_bytes.assigned
    /\ pc = "end" =>
          \/ Len(preview) = 1 /\ Len(download) = 1 /\ ~HasMessage("error")
          \/ preview = <<>> /\ download = <<>> /\ HasMessage("error")

====
